---- MODULE Spec2Model ----
(***************************************************************************)
(* State-machine model of the pddm-network consensus simulation            *)
(* (src/world.py, src/agents/agent.py).                                    *)
(*                                                                         *)
(* Conventions                                                             *)
(*  - An optional Python value (None or a value v) is the set {} or {v}.   *)
(*  - A preference pair (x, y) is the tuple <<x, y>>.                      *)
(*  - A float in [0,1] is a fixed-point integer in units of 1/Scale; each  *)
(*    float operation rounds to the nearest unit, as each float operation  *)
(*    of the program rounds to the nearest double.                         *)
(*  - Agents are the indices 1..n of the list built by initialisation();   *)
(*    an edge of the network is a pair <<i, j>> of indices.                *)
(*  - Draws from the shared random source are nondeterministic choices.    *)
(***************************************************************************)
EXTENDS Integers, Sequences, FiniteSets, TLC

VARIABLES
    cfg,                 \* command line arguments and module-level settings of world.py
    pc,                  \* position of main(): setup, init, idle, evidence, fusion, halted, rejected
    bandwidth_limit,     \* main(): bandwidth_limit, optional
    agents,              \* the agents created by initialisation(), a sequence of agent records
    network,             \* the nx.Graph of the trial: [nodes, edges]
    iteration,           \* main(): loop variable of the round loop
    idx,                 \* main_loop(): position of "for agent in network.nodes"
    reached_convergence, \* main_loop(): local of that name
    network_copy,        \* main_loop(): working copy of the network
    fused,               \* main_loop(): loop variable i of "for i in range(num_of_edges)"
    signal,              \* last value returned by main_loop(): "none", "continue", "stop"
    obs                  \* observations of the run, read only by the properties

vars == <<cfg, pc, bandwidth_limit, agents, network, iteration, idx,
          reached_convergence, network_copy, fused, signal, obs>>

----------------------------------------------------------------------------
(* Bounds of the model *)

IterationLimit == 3

SteadyStateThreshold == 2

----------------------------------------------------------------------------
(* Program constants *)

Scale == 12000

VarLambdaPercent == 10

----------------------------------------------------------------------------
(* Generic helpers *)

RoundDiv(a, b) == (2 * a + b) \div (2 * b)

RECURSIVE SumSeq(_)
SumSeq(s) == IF s = <<>> THEN 0 ELSE Head(s) + SumSeq(Tail(s))

Reverse(R) == {<<p[2], p[1]>> : p \in R}

KSubsets(S, k) == {T \in SUBSET S : Cardinality(T) = k}

----------------------------------------------------------------------------
(* utilities (not among the source files): modelled from the specification *)

\* utilities.preferences.ignorant_preferences: an agent that knows nothing
ignorant_preferences(states) == {}

RECURSIVE transitive_closure(_)
\* utilities.operators.transitive_closure: the smallest superset of the
\* relation closed under transitivity, computed without cycle detection
transitive_closure(R) ==
    LET new == {pq \in R \X R : pq[1][2] = pq[2][1]}
        step == R \cup {<<pq[1][1], pq[2][2]>> : pq \in new}
    IN  IF step = R THEN R ELSE transitive_closure(step)

----------------------------------------------------------------------------
(* The world: main() of world.py *)

\* true_order = [x for x in reversed(range(states))]
true_order(states) == [i \in 1..states |-> states - i]

\* true_prefs: the closure of the chain of neighbours of true_order
true_prefs(states) ==
    LET order == true_order(states)
    IN  transitive_closure(ignorant_preferences(states) \cup
            {<<order[i], order[i + 1]>> : i \in 1..(states - 1)})

\* quality_values = [round(i/(states + 1), 5) for i in 1..states], as fixed point
quality_values(states) == [i \in 1..states |-> RoundDiv(i * Scale, states + 1)]

----------------------------------------------------------------------------
(* class Agent *)

\* Agent.__init__ (and Probabilistic.__init__, which adds the uniform belief)
NewAgent(agent_type, states) ==
    [preferences  |-> ignorant_preferences(states),
     belief       |-> IF agent_type \in {"probabilistic", "average"}
                      THEN [i \in 1..states |-> RoundDiv(Scale, states)]
                      ELSE <<>>,
     evidence     |-> 0,
     interactions |-> 0,
     since_change |-> 0]

\* steady_state with the comparison made strict
steady_state_strict(agent, threshold) == agent.since_change > threshold

\* Agent.steady_state
steady_state(agent, threshold) == agent.since_change >= threshold

\* the consistency filter of combine: drop every pair whose reverse is present
filter_consistent(preferences) ==
    {p \in preferences : <<p[2], p[1]>> \notin preferences}

\* combine that forms the closure whether form_closure is set or not
combine_always_closure(prefs1, prefs2, form_closure) ==
    transitive_closure(filter_consistent(prefs1 \cup prefs2))

\* combine that keeps the pairs held in both directions
combine_nofilter(prefs1, prefs2, form_closure) ==
    IF form_closure THEN transitive_closure(prefs1 \cup prefs2) ELSE prefs1 \cup prefs2

\* combine that never forms the closure
combine_noclosure(prefs1, prefs2, form_closure) ==
    filter_consistent(prefs1 \cup prefs2)

\* Agent.combine
combine(prefs1, prefs2, form_closure) ==
    LET preferences == filter_consistent(prefs1 \cup prefs2)
    IN  IF form_closure THEN transitive_closure(preferences) ELSE preferences

\* evidential_updating that never resets the counter
evidential_updating_noreset(agent, preferences) ==
    [agent EXCEPT
        !.since_change = @ + 1,
        !.preferences  = preferences,
        !.evidence     = @ + 1]

\* Agent.evidential_updating
evidential_updating(agent, preferences) ==
    [agent EXCEPT
        !.since_change = IF preferences = agent.preferences THEN @ + 1 ELSE 0,
        !.preferences  = preferences,
        !.evidence     = @ + 1]

\* update_preferences that counts the fusion as evidence
update_preferences_as_evidence(agent, preferences) ==
    [agent EXCEPT
        !.since_change = IF preferences = agent.preferences THEN @ + 1 ELSE 0,
        !.preferences  = preferences,
        !.evidence     = @ + 1]

\* update_preferences that never resets the counter
update_preferences_noreset(agent, preferences) ==
    [agent EXCEPT
        !.since_change = @ + 1,
        !.preferences  = preferences,
        !.interactions = @ + 1]

\* Agent.update_preferences
update_preferences(agent, preferences) ==
    [agent EXCEPT
        !.since_change = IF preferences = agent.preferences THEN @ + 1 ELSE 0,
        !.preferences  = preferences,
        !.interactions = @ + 1]

\* find_evidence that applies the comparison error whether noise is set or not
find_evidence_noisy(agent, states, noise) ==
    LET expanded_preferences == agent.preferences \cup Reverse(agent.preferences)
        possible_evidence == true_prefs(states) \ expanded_preferences
    IN  IF possible_evidence = {} THEN {{}}
        ELSE {{choice} : choice \in possible_evidence} \cup
             {{<<choice[2], choice[1]>>} : choice \in possible_evidence}

\* find_evidence that samples among all the true pairs, known or not
find_evidence_any(agent, states, noise) ==
    LET possible_evidence == true_prefs(states)
    IN  IF possible_evidence = {} THEN {{}}
        ELSE IF ~noise THEN {{choice} : choice \in possible_evidence}
        ELSE {{choice} : choice \in possible_evidence} \cup
             {{<<choice[2], choice[1]>>} : choice \in possible_evidence}

\* Agent.find_evidence: every evidence set the method can return.  The noisy
\* comparison keeps the sampled pair or reverses it, by a draw against
\* comparison_errors[|x - y| - 1].
find_evidence(agent, states, noise) ==
    LET expanded_preferences == agent.preferences \cup Reverse(agent.preferences)
        possible_evidence == true_prefs(states) \ expanded_preferences
    IN  IF possible_evidence = {} THEN {{}}
        ELSE IF ~noise THEN {{choice} : choice \in possible_evidence}
        ELSE {{choice} : choice \in possible_evidence} \cup
             {{<<choice[2], choice[1]>>} : choice \in possible_evidence}

----------------------------------------------------------------------------
(* class Bandwidth *)

\* a sample that transmits the whole relation
Bandwidth_sample_all(prefs, limit) == {prefs}

\* set1, set2 of Bandwidth.combine: random_instance.sample of limit pairs when
\* the relation has at least that many, the relation itself otherwise
Bandwidth_sample(prefs, limit) ==
    IF limit <= Cardinality(prefs) THEN KSubsets(prefs, limit) ELSE {prefs}

\* Bandwidth.combine: every result the method can return, as a set of pairs
\* <<preferences1, preferences2>>; without a bandwidth limit the single
\* result r is returned as <<r, r>>.
Bandwidth_combine(prefs1, prefs2, limit, form_closure) ==
    IF limit = {}
    THEN {<<combine(prefs1, prefs2, form_closure), combine(prefs1, prefs2, form_closure)>>}
    ELSE LET k == CHOOSE v \in limit : TRUE
         IN  {<<combine(prefs1, set2, form_closure), combine(set1, prefs2, form_closure)>> :
                 <<set1, set2>> \in Bandwidth_sample(prefs1, k) \X Bandwidth_sample(prefs2, k)}

----------------------------------------------------------------------------
(* class Probabilistic *)

\* the product operator without the division by product_sum
Probabilistic_combine_unnormalised(belief1, belief2) ==
    LET n == Len(belief1)
        products == [i \in 1..n |-> RoundDiv(belief1[i] * belief2[i], Scale)]
    IN  IF SumSeq(products) = 0 THEN {}
        ELSE {[i \in 1..n |->
                 RoundDiv(VarLambdaPercent * Scale, 100 * n) +
                 RoundDiv((100 - VarLambdaPercent) * products[i], 100)]}

\* Probabilistic.combine: the product operator with dampening; {} is None
Probabilistic_combine(belief1, belief2) ==
    LET n == Len(belief1)
        products == [i \in 1..n |-> RoundDiv(belief1[i] * belief2[i], Scale)]
        product_sum == SumSeq(products)
    IN  IF product_sum = 0 THEN {}
        ELSE {[i \in 1..n |->
                 RoundDiv(VarLambdaPercent * Scale, 100 * n) +
                 RoundDiv((100 - VarLambdaPercent) *
                          RoundDiv(products[i] * Scale, product_sum), 100)]}

\* Average.combine: the element-wise midpoint; never None for finite inputs
Average_combine(belief1, belief2) ==
    {[i \in 1..Len(belief1) |-> RoundDiv(belief1[i] + belief2[i], 2)]}

\* Probabilistic.identify_preferences: each pair x < y is compared once
identify_preferences(belief) ==
    LET pairs == {xy \in (1..Len(belief)) \X (1..Len(belief)) : xy[1] < xy[2]}
    IN  {<<xy[1] - 1, xy[2] - 1>> : xy \in {p \in pairs : belief[p[1]] > belief[p[2]]}} \cup
        {<<xy[2] - 1, xy[1] - 1>> : xy \in {p \in pairs : belief[p[2]] > belief[p[1]]}}

\* evidential_updating that stores the belief and keeps the old relation
Probabilistic_evidential_updating_stale(agent, value) ==
    IF value = {} THEN [agent EXCEPT !.since_change = @ + 1]
    ELSE LET belief == CHOOSE b \in value : TRUE
         IN  [agent EXCEPT
                 !.since_change = IF belief = agent.belief THEN @ + 1 ELSE 0,
                 !.belief       = belief,
                 !.evidence     = @ + 1]

\* Probabilistic.evidential_updating; value is {} for None
Probabilistic_evidential_updating(agent, value) ==
    IF value = {} THEN [agent EXCEPT !.since_change = @ + 1]
    ELSE LET belief == CHOOSE b \in value : TRUE
         IN  [agent EXCEPT
                 !.since_change = IF belief = agent.belief THEN @ + 1 ELSE 0,
                 !.belief       = belief,
                 !.preferences  = identify_preferences(belief),
                 !.evidence     = @ + 1]

\* update_preferences that counts an interaction whose result is None
Probabilistic_update_preferences_counted(agent, value) ==
    IF value = {} THEN [agent EXCEPT !.since_change = @ + 1, !.interactions = @ + 1]
    ELSE LET belief == CHOOSE b \in value : TRUE
         IN  [agent EXCEPT
                 !.since_change = IF belief = agent.belief THEN @ + 1 ELSE 0,
                 !.belief       = belief,
                 !.preferences  = identify_preferences(belief),
                 !.interactions = @ + 1]

\* Probabilistic.update_preferences; value is {} for None
Probabilistic_update_preferences(agent, value) ==
    IF value = {} THEN [agent EXCEPT !.since_change = @ + 1]
    ELSE LET belief == CHOOSE b \in value : TRUE
         IN  [agent EXCEPT
                 !.since_change = IF belief = agent.belief THEN @ + 1 ELSE 0,
                 !.belief       = belief,
                 !.preferences  = identify_preferences(belief),
                 !.interactions = @ + 1]

\* The qualities q + epsilon the rejection loop of random_evidence can leave:
\* any value of [0, 1]; here the two ends and q itself.
NoisyQualities(q) == {0, q, Scale}

\* the peaked distribution random_evidence builds around random_state
PeakedEvidence(states, random_state, quality) ==
    [i \in 1..states |->
        IF i = random_state
        THEN RoundDiv((states - 1) * quality + Scale, states)
        ELSE RoundDiv(Scale - quality, states)]

\* Probabilistic.random_evidence: every distribution the method can return
random_evidence(states, noise) ==
    LET q == quality_values(states)
    IN  IF ~noise
        THEN {PeakedEvidence(states, rs, q[rs]) : rs \in 1..states}
        ELSE UNION {{PeakedEvidence(states, rs, nq) : nq \in NoisyQualities(q[rs])} :
                    rs \in 1..states}

----------------------------------------------------------------------------
(* The trial configuration: the command line of world.py and its settings *)

ProbAgentTypes == {"probabilistic", "average"}

\* agent_type.combine for the two probabilistic classes
type_combine(agent_type, belief1, belief2) ==
    IF agent_type = "average" THEN Average_combine(belief1, belief2)
    ELSE Probabilistic_combine(belief1, belief2)

\* what results.error and the comparisons of the updates look at
BeliefOf(agent_type, agent) ==
    IF agent_type \in ProbAgentTypes THEN agent.belief ELSE agent.preferences

\* nx.gnp_random_graph(n, p): no edge for p <= 0, every edge for p >= 1,
\* any simple graph otherwise; p is in percent
AllEdges(n) == {e \in (1..n) \X (1..n) : e[1] < e[2]}

gnp_random_graph(n, p) ==
    IF p <= 0 THEN {{}}
    ELSE IF p >= 100 THEN {AllEdges(n)}
    ELSE SUBSET AllEdges(n)

\* remove_node that leaves the working copy as it is
remove_node_keep(G, node) == G

\* network_copy.remove_node
remove_node(G, node) ==
    [nodes |-> G.nodes \ {node},
     edges |-> {e \in G.edges : e[1] # node /\ e[2] # node}]

\* a working copy that is the network itself: what is removed from the one
\* is removed from the other
network_after_remove_aliased(G, working) == working

\* network_copy = network.copy(): the working copy is a graph of its own, and
\* the network is what it was after nodes are removed from the copy
network_after_remove(G, working) == G

\* num_of_edges of main_loop
num_of_edges(fusion_rate, G) ==
    IF fusion_rate = {} THEN 1
    ELSE (Cardinality(G.nodes) * (CHOOSE r \in fusion_rate : TRUE)) \div 100

\* The evidence branch of main_loop for one agent: every state the agent can
\* be left in by evidence generation, combine and evidential_updating
EvidenceOutcomes(c, agent) ==
    IF c.agent_type \in ProbAgentTypes
    THEN {Probabilistic_evidential_updating(agent,
              type_combine(c.agent_type, agent.belief, ev)) :
          ev \in random_evidence(c.states, c.noise)}
    ELSE IF c.agent_type = "bandwidth"
    THEN {evidential_updating(agent, r[1]) :
          r \in UNION {Bandwidth_combine(agent.preferences, ev, {}, c.form_closure) :
                       ev \in find_evidence(agent, c.states, c.noise)}}
    ELSE {evidential_updating(agent, combine(agent.preferences, ev, c.form_closure)) :
          ev \in find_evidence(agent, c.states, c.noise)}

\* a fusion that updates the first agent and leaves the second as it was
InteractionOutcomes_first(c, limit, agent1, agent2) ==
    IF c.agent_type \in ProbAgentTypes
    THEN {<<Probabilistic_update_preferences(agent1,
                type_combine(c.agent_type, agent1.belief, agent2.belief)),
            agent2>>}
    ELSE IF c.agent_type = "bandwidth"
    THEN {<<update_preferences(agent1, r[1]), agent2>> :
          r \in Bandwidth_combine(agent1.preferences, agent2.preferences,
                                  limit, c.form_closure)}
    ELSE {<<update_preferences(agent1,
                combine(agent1.preferences, agent2.preferences, c.form_closure)),
            agent2>>}

\* a fusion in which only the first agent adopts the combination
InteractionOutcomes_onesided(c, limit, agent1, agent2) ==
    IF c.agent_type \in ProbAgentTypes
    THEN {<<Probabilistic_update_preferences(agent1,
                type_combine(c.agent_type, agent1.belief, agent2.belief)),
            Probabilistic_update_preferences(agent2, {agent2.belief})>>}
    ELSE {<<update_preferences(agent1,
                combine(agent1.preferences, agent2.preferences, c.form_closure)),
            update_preferences(agent2, agent2.preferences)>>}

\* The fusion of one selected edge in main_loop: every pair of states the two
\* endpoint agents can be left in by combine and the two update_preferences
InteractionOutcomes(c, limit, agent1, agent2) ==
    IF c.agent_type \in ProbAgentTypes
    THEN LET new_preference == type_combine(c.agent_type, agent1.belief, agent2.belief)
         IN  {<<Probabilistic_update_preferences(agent1, new_preference),
                Probabilistic_update_preferences(agent2, new_preference)>>}
    ELSE IF c.agent_type = "bandwidth"
    THEN {<<update_preferences(agent1, r[1]), update_preferences(agent2, r[2])>> :
          r \in Bandwidth_combine(agent1.preferences, agent2.preferences,
                                  limit, c.form_closure)}
    ELSE LET new_preference == combine(agent1.preferences, agent2.preferences,
                                       c.form_closure)
         IN  {<<update_preferences(agent1, new_preference),
                update_preferences(agent2, new_preference)>>}

----------------------------------------------------------------------------
(* The trials that are run *)

AgentTypes == {"agent", "bandwidth", "probabilistic", "average"}

\* One trial configuration: the command line (states, agents, connectivity)
\* and the module-level settings of world.py
Config(agent_type, form_closure, noise, evidence_only, fusion_rate, states, num_agents, connectivity, connectivity_value) ==
    [agent_type         |-> agent_type,
     form_closure       |-> form_closure,
     noise              |-> noise,
     evidence_only      |-> evidence_only,
     fusion_rate        |-> fusion_rate,
     states             |-> states,
     agents             |-> num_agents,
     connectivity       |-> connectivity,
     connectivity_value |-> connectivity_value]

\* two agents of each ordinal kind rank three alternatives over a complete graph
OrdinalConfigs ==
    {Config(t, fc, nz, FALSE, {}, 3, 2, {100}, {100}) :
        t \in {"agent", "bandwidth"}, fc \in BOOLEAN, nz \in BOOLEAN}

\* two agents of each probabilistic kind rank two alternatives
ProbabilisticConfigs ==
    {Config(t, FALSE, nz, FALSE, {}, 2, 2, {}, {100}) :
        t \in ProbAgentTypes, nz \in BOOLEAN}

\* larger populations on a random graph, one edge or several per round
PopulationConfigs ==
    {Config("agent", FALSE, FALSE, FALSE, fr, 2, 3, {50}, {100}) : fr \in {{}, {100}}} \cup
    {Config("agent", FALSE, FALSE, FALSE, {50}, 2, 4, {100}, {100})}

\* evidence only
EvidenceOnlyConfigs ==
    {Config(t, FALSE, FALSE, TRUE, {}, 2, 2, {100}, {100}) :
        t \in {"agent", "probabilistic"}}

\* configurations outside the documented ranges
OutOfRangeConfigs ==
    {Config(t, FALSE, FALSE, FALSE, {}, 1, 2, {100}, {100}) :
        t \in {"agent", "probabilistic"}} \cup
    {Config("agent", FALSE, FALSE, FALSE, {}, 2, 2, {c}, {100}) : c \in {-50, 150}} \cup
    {Config("bandwidth", FALSE, FALSE, FALSE, {}, 2, 2, {}, {})}

Configs ==
    OrdinalConfigs \cup ProbabilisticConfigs \cup PopulationConfigs \cup
    EvidenceOnlyConfigs \cup OutOfRangeConfigs

\* the last k elements of a sequence
Keep(s, k) == IF Len(s) <= k THEN s ELSE SubSeq(s, Len(s) - k + 1, Len(s))

NoObs ==
    [round_start |-> <<>>, selected |-> {}, edge |-> <<>>, decided |-> FALSE,
     round_ends |-> <<>>, updates |-> <<>>, call |-> <<>>, shared |-> <<>>,
     drawn |-> {}, network0 |-> [nodes |-> {}, edges |-> {}]]

\* the observation of a finished round: the belief of each agent at its end
EndOfRound(o, c, ags) ==
    [o EXCEPT !.round_ends =
        [a \in 1..Len(ags) |-> Keep(Append(@[a], BeliefOf(c.agent_type, ags[a])),
                                    SteadyStateThreshold)]]

\* the observation of update calls on the agents in who: their beliefs after it
Updated(o, c, ags, who) ==
    [o EXCEPT !.updates =
        [a \in 1..Len(ags) |->
            IF a \in who
            THEN Keep(Append(@[a], BeliefOf(c.agent_type, ags[a])),
                      SteadyStateThreshold + 1)
            ELSE @[a]]]

\* self.preferences = preferences, self.belief = belief, written through to
\* every agent that holds the same object
WriteThrough(ags, shared, a, new) ==
    [b \in 1..Len(ags) |->
        IF b = a THEN new
        ELSE IF b \in shared[a]
        THEN [ags[b] EXCEPT !.preferences = new.preferences, !.belief = new.belief]
        ELSE ags[b]]

\* self.preferences = preferences, self.belief = belief: the attribute of
\* agent a is bound to the object it is handed; shared[a] are the agents that
\* hold the object a held so far, and none of them is touched
Rebind(ags, shared, a, new) == [ags EXCEPT ![a] = new]

\* The agents that hold the same belief object after the evidence step of
\* agent a: combine returned a fresh object that only a holds, unless it
\* returned None and a keeps the object it had
SharedAfterEvidence(shared, a, old, new) ==
    IF new.evidence = old.evidence THEN shared
    ELSE [b \in DOMAIN shared |-> IF b = a THEN {a} ELSE shared[b] \ {a}]

\* The agents that hold the same belief object after the fusion of edge e:
\* both agents are handed the one result of combine, or each its own element
\* of the tuple Bandwidth.combine returns under a limit; None leaves both as
\* they were
SharedAfterFusion(shared, limit, e, old, new) ==
    IF new[e[1]].interactions = old[e[1]].interactions THEN shared
    ELSE [b \in DOMAIN shared |->
            IF b \in {e[1], e[2]}
            THEN IF limit # {} THEN {b} ELSE {e[1], e[2]}
            ELSE shared[b] \ {e[1], e[2]}]

Init ==
    /\ cfg \in Configs
    /\ pc = "setup"
    /\ bandwidth_limit = {}
    /\ agents = <<>>
    /\ network = [nodes |-> {}, edges |-> {}]
    /\ iteration = 0
    /\ idx = 0
    /\ reached_convergence = FALSE
    /\ network_copy = [nodes |-> {}, edges |-> {}]
    /\ fused = 0
    /\ signal = "none"
    /\ obs = NoObs

\* main(), lines 183-253: the arguments are read and the world is set up;
\* the only configuration the program refuses is a missing connectivity
EffectiveConnectivity(c) ==
    IF c.connectivity = {} /\ c.connectivity_value # {}
    THEN c.connectivity_value ELSE c.connectivity

SetupRejected ==
    /\ pc = "setup"
    /\ EffectiveConnectivity(cfg) = {}
    /\ pc' = "rejected"
    /\ UNCHANGED <<cfg, bandwidth_limit, agents, network, iteration, idx,
                   reached_convergence, network_copy, fused, signal, obs>>

Setup ==
    /\ pc = "setup"
    /\ EffectiveConnectivity(cfg) # {}
    /\ cfg' = [cfg EXCEPT !.connectivity = EffectiveConnectivity(cfg)]
    /\ bandwidth_limit' = IF cfg.agent_type = "bandwidth" THEN {cfg.states} ELSE {}
    /\ pc' = "init"
    /\ UNCHANGED <<agents, network, iteration, idx, reached_convergence,
                   network_copy, fused, signal, obs>>

\* initialisation() and the round 0 snapshot of main()
Initialisation ==
    /\ pc = "init"
    /\ \E edges \in gnp_random_graph(cfg.agents, CHOOSE p \in cfg.connectivity : TRUE) :
          network' = [nodes |-> 1..cfg.agents, edges |-> edges]
    /\ agents' = [a \in 1..cfg.agents |-> NewAgent(cfg.agent_type, cfg.states)]
    /\ obs' = [NoObs EXCEPT
                 !.round_ends = [a \in 1..cfg.agents |->
                     <<BeliefOf(cfg.agent_type, NewAgent(cfg.agent_type, cfg.states))>>],
                 !.updates = [a \in 1..cfg.agents |->
                     <<BeliefOf(cfg.agent_type, NewAgent(cfg.agent_type, cfg.states))>>],
                 !.shared = [a \in 1..cfg.agents |-> {a}],
                 !.network0 = network']
    /\ pc' = "idle"
    /\ UNCHANGED <<cfg, bandwidth_limit, iteration, idx, reached_convergence,
                   network_copy, fused, signal>>

\* a round loop that runs one round too many
StartRound_onemore ==
    /\ pc = "idle"
    /\ iteration < IterationLimit + 1
    /\ iteration' = iteration + 1
    /\ pc' = "evidence"
    /\ idx' = 1
    /\ reached_convergence' = TRUE
    /\ fused' = 0
    /\ obs' = [obs EXCEPT !.round_start = agents, !.selected = {}, !.edge = <<>>,
                          !.decided = FALSE, !.drawn = {}]
    /\ UNCHANGED <<cfg, bandwidth_limit, agents, network, network_copy, signal>>

\* main(): the next iteration of the round loop calls main_loop
StartRound ==
    /\ pc = "idle"
    /\ iteration < IterationLimit
    /\ iteration' = iteration + 1
    /\ pc' = "evidence"
    /\ idx' = 1
    /\ reached_convergence' = TRUE
    /\ fused' = 0
    /\ obs' = [obs EXCEPT !.round_start = agents, !.selected = {}, !.edge = <<>>,
                          !.decided = FALSE, !.drawn = {}]
    /\ UNCHANGED <<cfg, bandwidth_limit, agents, network, network_copy, signal>>

\* main(): the round loop has run iteration_limit times
LimitReached ==
    /\ pc = "idle"
    /\ iteration >= IterationLimit
    /\ pc' = "halted"
    /\ UNCHANGED <<cfg, bandwidth_limit, agents, network, iteration, idx,
                   reached_convergence, network_copy, fused, signal, obs>>

\* an evidence phase that counts a round without evidence as a round
\* without change
EvidenceSkipped_counted ==
    /\ pc = "evidence"
    /\ idx <= Len(agents)
    /\ agents' = [agents EXCEPT ![idx].since_change = @ + 1]
    /\ reached_convergence' =
          (reached_convergence /\ steady_state(agents'[idx], SteadyStateThreshold))
    /\ idx' = idx + 1
    /\ UNCHANGED <<cfg, pc, bandwidth_limit, network, iteration,
                   network_copy, fused, signal, obs>>

\* main_loop, lines 91-122: the agent draws above the evidence rate
EvidenceSkipped ==
    /\ pc = "evidence"
    /\ idx <= Len(agents)
    /\ reached_convergence' =
          (reached_convergence /\ steady_state(agents[idx], SteadyStateThreshold))
    /\ idx' = idx + 1
    /\ UNCHANGED <<cfg, pc, bandwidth_limit, agents, network, iteration,
                   network_copy, fused, signal, obs>>

\* main_loop, lines 91-122: the agent receives evidence and updates on it
EvidenceDrawn ==
    /\ pc = "evidence"
    /\ idx <= Len(agents)
    /\ \E new \in EvidenceOutcomes(cfg, agents[idx]) :
          /\ agents' = Rebind(agents, obs.shared, idx, new)
          /\ reached_convergence' =
                (reached_convergence /\ steady_state(new, SteadyStateThreshold))
    /\ idx' = idx + 1
    /\ obs' = Updated([obs EXCEPT !.drawn = @ \cup {idx}, !.shared =
                          SharedAfterEvidence(@, idx, agents[idx], agents'[idx])],
                      cfg, agents', {idx})
    /\ UNCHANGED <<cfg, pc, bandwidth_limit, network, iteration, network_copy,
                   fused, signal>>

AllConverged ==
    \A a \in 1..Len(agents) : agents[a].since_change >= SteadyStateThreshold

\* a round that finds every agent converged only after its fusion phase
RoundStop_afterfusion ==
    /\ pc = "evidence"
    /\ idx > Len(agents)
    /\ reached_convergence
    /\ signal' = "stop"
    /\ network_copy' = network
    /\ fused' = 0
    /\ pc' = "fusion"
    /\ obs' = [obs EXCEPT !.decided = AllConverged]
    /\ UNCHANGED <<cfg, bandwidth_limit, agents, network, iteration, idx,
                   reached_convergence>>

\* a driver that does not break when the round returns False
RoundStop_nobreak ==
    /\ pc = "evidence"
    /\ idx > Len(agents)
    /\ reached_convergence
    /\ signal' = "stop"
    /\ pc' = "idle"
    /\ obs' = EndOfRound([obs EXCEPT !.decided = AllConverged], cfg, agents)
    /\ UNCHANGED <<cfg, bandwidth_limit, agents, network, iteration, idx,
                   reached_convergence, network_copy, fused>>

\* main_loop, lines 124-125, and the break of main(): the round returns False
RoundStop ==
    /\ pc = "evidence"
    /\ idx > Len(agents)
    /\ reached_convergence
    /\ signal' = "stop"
    /\ pc' = "halted"
    /\ obs' = EndOfRound([obs EXCEPT !.decided = AllConverged], cfg, agents)
    /\ UNCHANGED <<cfg, bandwidth_limit, agents, network, iteration, idx,
                   reached_convergence, network_copy, fused>>

\* main_loop, lines 126-127: evidence only, the round returns True
RoundEvidenceOnly ==
    /\ pc = "evidence"
    /\ idx > Len(agents)
    /\ ~reached_convergence
    /\ cfg.evidence_only
    /\ signal' = "continue"
    /\ pc' = "idle"
    /\ obs' = EndOfRound([obs EXCEPT !.decided = AllConverged], cfg, agents)
    /\ UNCHANGED <<cfg, bandwidth_limit, agents, network, iteration, idx,
                   reached_convergence, network_copy, fused>>

\* a fusion phase that does not look at evidence_only
BeginFusion_always ==
    /\ pc = "evidence"
    /\ idx > Len(agents)
    /\ ~reached_convergence
    /\ network_copy' = network
    /\ fused' = 0
    /\ pc' = "fusion"
    /\ obs' = [obs EXCEPT !.decided = AllConverged]
    /\ UNCHANGED <<cfg, bandwidth_limit, agents, network, iteration, idx,
                   reached_convergence, signal>>

\* main_loop, lines 134-141: the fusion phase starts on a copy of the network
BeginFusion ==
    /\ pc = "evidence"
    /\ idx > Len(agents)
    /\ ~reached_convergence
    /\ ~cfg.evidence_only
    /\ network_copy' = network
    /\ fused' = 0
    /\ pc' = "fusion"
    /\ obs' = [obs EXCEPT !.decided = AllConverged]
    /\ UNCHANGED <<cfg, bandwidth_limit, agents, network, iteration, idx,
                   reached_convergence, signal>>

\* main_loop, lines 143-165: one edge is selected and its two agents fuse
FusionStep ==
    /\ pc = "fusion"
    /\ fused < num_of_edges(cfg.fusion_rate, network)
    /\ \E e \in network_copy.edges :
          /\ \E new \in InteractionOutcomes(cfg, bandwidth_limit,
                                            agents[e[1]], agents[e[2]]) :
                agents' = Rebind(Rebind(agents, obs.shared, e[1], new[1]),
                                 obs.shared, e[2], new[2])
          /\ network_copy' = remove_node(remove_node(network_copy, e[1]), e[2])
          /\ obs' = Updated([obs EXCEPT !.selected = @ \cup {e}, !.edge = e,
                                        !.shared = SharedAfterFusion(@, bandwidth_limit,
                                                                     e, agents, agents')],
                            cfg, agents', {e[1], e[2]})
    /\ network' = network_after_remove(network, network_copy')
    /\ fused' = fused + 1
    /\ UNCHANGED <<cfg, pc, bandwidth_limit, iteration, idx,
                   reached_convergence, signal>>

\* an exhausted edge set that ends the trial
FusionExhausted_stop ==
    /\ pc = "fusion"
    /\ fused < num_of_edges(cfg.fusion_rate, network)
    /\ network_copy.edges = {}
    /\ signal' = "stop"
    /\ pc' = "halted"
    /\ obs' = EndOfRound(obs, cfg, agents)
    /\ UNCHANGED <<cfg, bandwidth_limit, agents, network, iteration, idx,
                   reached_convergence, network_copy, fused>>

\* main_loop, lines 144-147: no edge is left to select, the round returns True
FusionExhausted ==
    /\ pc = "fusion"
    /\ fused < num_of_edges(cfg.fusion_rate, network)
    /\ network_copy.edges = {}
    /\ signal' = "continue"
    /\ pc' = "idle"
    /\ obs' = EndOfRound(obs, cfg, agents)
    /\ UNCHANGED <<cfg, bandwidth_limit, agents, network, iteration, idx,
                   reached_convergence, network_copy, fused>>

\* main_loop, line 171: the quota of edges is filled, the round returns True
FusionDone ==
    /\ pc = "fusion"
    /\ fused >= num_of_edges(cfg.fusion_rate, network)
    /\ signal' = "continue"
    /\ pc' = "idle"
    /\ obs' = EndOfRound(obs, cfg, agents)
    /\ UNCHANGED <<cfg, bandwidth_limit, agents, network, iteration, idx,
                   reached_convergence, network_copy, fused>>

Next ==
    \/ SetupRejected
    \/ Setup
    \/ Initialisation
    \/ StartRound
    \/ LimitReached
    \/ EvidenceSkipped
    \/ EvidenceDrawn
    \/ RoundStop
    \/ RoundEvidenceOnly
    \/ BeginFusion
    \/ FusionStep
    \/ FusionExhausted
    \/ FusionDone

Spec == Init /\ [][Next]_vars

\* Termination is checked on the trials of two alternatives.  The program
\* runs on: a step that can be taken is eventually taken.
FairConfigs == {c \in Configs : c.states = 2 /\ c.agents = 2 /\ ~c.noise}

FairInit == Init /\ cfg \in FairConfigs

FairSpec == FairInit /\ [][Next]_vars /\ WF_vars(Next)

----------------------------------------------------------------------------
(* The trials of the larger populations: three or four ordinal agents on a   *)
(* random or complete graph, with one edge or several selected per round.    *)
(* Their connectivity is given and evidence_only is off, so setup is never   *)
(* refused and every unconverged round goes on to the fusion phase.          *)

PopulationInit == Init /\ cfg \in PopulationConfigs

PopulationNext ==
    \/ Setup
    \/ Initialisation
    \/ StartRound
    \/ LimitReached
    \/ EvidenceSkipped
    \/ EvidenceDrawn
    \/ RoundStop
    \/ BeginFusion
    \/ FusionStep
    \/ FusionExhausted
    \/ FusionDone

PopulationSpec == PopulationInit /\ [][PopulationNext]_vars

----------------------------------------------------------------------------
(* The update methods on their own: one agent in a state drawn from a       *)
(* bounded set receives the result of combining its belief with an operand  *)
(* drawn from a bounded set. *)

MaxSinceChange == 2

UnitPairs == {<<0, 1>>, <<1, 0>>}

UnitBeliefs ==
    {<<Scale \div 2, Scale \div 2>>, <<Scale, 0>>, <<0, Scale>>,
     <<Scale \div 3, 2 * (Scale \div 3)>>}

UnitConfigs ==
    {Config(t, fc, FALSE, FALSE, {}, 2, 1, {100}, {100}) :
        t \in {"agent", "bandwidth"}, fc \in BOOLEAN} \cup
    {Config(t, FALSE, FALSE, FALSE, {}, 2, 1, {100}, {100}) : t \in ProbAgentTypes}

UnitAgents(agent_type) ==
    IF agent_type \in ProbAgentTypes
    THEN {[preferences |-> identify_preferences(b), belief |-> b, evidence |-> 0,
           interactions |-> 0, since_change |-> sc] :
          b \in UnitBeliefs, sc \in 0..MaxSinceChange}
    ELSE {[preferences |-> r, belief |-> <<>>, evidence |-> 0,
           interactions |-> 0, since_change |-> sc] :
          r \in {filter_consistent(x) : x \in SUBSET UnitPairs}, sc \in 0..MaxSinceChange}

\* the combine results an update can be handed, each as an optional value
UnitValues(c, agent) ==
    IF c.agent_type \in ProbAgentTypes
    THEN {type_combine(c.agent_type, agent.belief, b) : b \in UnitBeliefs}
    ELSE {{combine(agent.preferences, r, c.form_closure)} : r \in SUBSET UnitPairs}

UnitInit ==
    /\ cfg \in UnitConfigs
    /\ pc = "unit"
    /\ bandwidth_limit = {}
    /\ \E a \in UnitAgents(cfg.agent_type) : agents = <<a>>
    /\ network = [nodes |-> {1}, edges |-> {}]
    /\ iteration = 0
    /\ idx = 0
    /\ reached_convergence = FALSE
    /\ network_copy = [nodes |-> {}, edges |-> {}]
    /\ fused = 0
    /\ signal = "none"
    /\ obs = NoObs

\* agent.evidential_updating(value), of the class of the agent
UnitEvidentialUpdating ==
    /\ pc = "unit"
    /\ \E value \in UnitValues(cfg, agents[1]) :
          /\ agents' = <<IF cfg.agent_type \in ProbAgentTypes
                         THEN Probabilistic_evidential_updating(agents[1], value)
                         ELSE evidential_updating(agents[1], CHOOSE r \in value : TRUE)>>
          /\ obs' = [obs EXCEPT !.call = [op |-> "evidential_updating", value |-> value]]
    /\ pc' = "unit_done"
    /\ UNCHANGED <<cfg, bandwidth_limit, network, iteration, idx,
                   reached_convergence, network_copy, fused, signal>>

\* agent.update_preferences(value), of the class of the agent
UnitUpdatePreferences ==
    /\ pc = "unit"
    /\ \E value \in UnitValues(cfg, agents[1]) :
          /\ agents' = <<IF cfg.agent_type \in ProbAgentTypes
                         THEN Probabilistic_update_preferences(agents[1], value)
                         ELSE update_preferences(agents[1], CHOOSE r \in value : TRUE)>>
          /\ obs' = [obs EXCEPT !.call = [op |-> "update_preferences", value |-> value]]
    /\ pc' = "unit_done"
    /\ UNCHANGED <<cfg, bandwidth_limit, network, iteration, idx,
                   reached_convergence, network_copy, fused, signal>>

UnitNext == UnitEvidentialUpdating \/ UnitUpdatePreferences

UnitSpec == UnitInit /\ [][UnitNext]_vars

----------------------------------------------------------------------------
(* One fusion on its own: the fusion phase of a round selects an edge whose  *)
(* two agents have so far only received evidence (the edges selected in the  *)
(* earlier rounds joined other agents of the population).  Four alternatives *)
(* are ranked. *)

MaxEvidence == 2

PairConfigs ==
    {Config(t, fc, nz, FALSE, {}, 4, 2, {100}, {100}) :
        t \in {"agent", "bandwidth"}, fc \in BOOLEAN, nz \in BOOLEAN}

RECURSIVE AfterEvidence(_, _, _)
\* the states an agent can be in after at most k evidence steps of main_loop
AfterEvidence(c, S, k) ==
    IF k = 0 THEN S
    ELSE AfterEvidence(c, S \cup UNION {EvidenceOutcomes(c, a) : a \in S}, k - 1)

PairInit ==
    /\ cfg \in PairConfigs
    /\ pc = "fusion"
    /\ bandwidth_limit = IF cfg.agent_type = "bandwidth" THEN {cfg.states} ELSE {}
    /\ \E a, b \in AfterEvidence(cfg, {NewAgent(cfg.agent_type, cfg.states)}, MaxEvidence) :
          agents = <<a, b>>
    /\ network = [nodes |-> {1, 2}, edges |-> {<<1, 2>>}]
    /\ iteration = MaxEvidence
    /\ idx = 3
    /\ reached_convergence = FALSE
    /\ network_copy = network
    /\ fused = 0
    /\ signal = "continue"
    /\ obs = [NoObs EXCEPT
                !.round_start = agents,
                !.round_ends = [a \in 1..2 |-> <<BeliefOf(cfg.agent_type, agents[a])>>],
                !.updates = [a \in 1..2 |-> <<BeliefOf(cfg.agent_type, agents[a])>>],
                !.shared = [a \in 1..2 |-> {a}],
                !.network0 = network]

PairNext == FusionStep \/ FusionDone

PairSpec == PairInit /\ [][PairNext]_vars

----------------------------------------------------------------------------
(* One bandwidth-limited fusion on its own: the two agents of the selected   *)
(* edge rank four alternatives with closure off and have so far only         *)
(* received evidence: up to MaxLearned pieces without noise, which is enough *)
(* to hold more pairs than the limit transmits, or up to MaxEvidence pieces  *)
(* with noise, which is enough to hold pairs the other agent holds reversed. *)

MaxLearned == 6

BandwidthConfigs ==
    {Config("bandwidth", FALSE, nz, FALSE, {}, 4, 2, {100}, {100}) : nz \in BOOLEAN}

BandwidthInit ==
    /\ cfg \in BandwidthConfigs
    /\ pc = "fusion"
    /\ bandwidth_limit = {cfg.states}
    /\ \E a, b \in AfterEvidence(cfg, {NewAgent(cfg.agent_type, cfg.states)},
                                 IF cfg.noise THEN MaxEvidence ELSE MaxLearned) :
          agents = <<a, b>>
    /\ network = [nodes |-> {1, 2}, edges |-> {<<1, 2>>}]
    /\ iteration = MaxLearned
    /\ idx = 3
    /\ reached_convergence = FALSE
    /\ network_copy = network
    /\ fused = 0
    /\ signal = "continue"
    /\ obs = [NoObs EXCEPT
                !.round_start = agents,
                !.round_ends = [a \in 1..2 |-> <<BeliefOf(cfg.agent_type, agents[a])>>],
                !.updates = [a \in 1..2 |-> <<BeliefOf(cfg.agent_type, agents[a])>>],
                !.shared = [a \in 1..2 |-> {a}],
                !.network0 = network]

BandwidthNext == FusionStep \/ FusionDone

BandwidthSpec == BandwidthInit /\ [][BandwidthNext]_vars

----------------------------------------------------------------------------
(* One evidence step on its own: an ordinal agent that ranks four            *)
(* alternatives is in a state the evidence steps and the fusion of the       *)
(* earlier rounds can have left it in, and it is the next agent of the       *)
(* evidence phase of main_loop. *)

EvidenceConfigs ==
    {Config(t, fc, nz, FALSE, {}, 4, 1, {100}, {100}) :
        t \in {"agent", "bandwidth"}, fc \in BOOLEAN, nz \in BOOLEAN}

\* the states of the agents of an edge after up to MaxEvidence evidence steps
\* each, and after the fusion of the edge
AfterFusion(c, limit) ==
    LET before == AfterEvidence(c, {NewAgent(c.agent_type, c.states)}, MaxEvidence)
    IN  before \cup
        UNION {UNION {{new[1], new[2]} : new \in InteractionOutcomes(c, limit, x, y)} :
               <<x, y>> \in before \X before}

EvidenceInit ==
    /\ cfg \in EvidenceConfigs
    /\ pc = "evidence"
    /\ bandwidth_limit = IF cfg.agent_type = "bandwidth" THEN {cfg.states} ELSE {}
    /\ \E a \in AfterFusion(cfg, bandwidth_limit) : agents = <<a>>
    /\ network = [nodes |-> {1}, edges |-> {}]
    /\ iteration = MaxEvidence + 1
    /\ idx = 1
    /\ reached_convergence = TRUE
    /\ network_copy = [nodes |-> {}, edges |-> {}]
    /\ fused = 0
    /\ signal = "continue"
    /\ obs = [NoObs EXCEPT
                !.round_start = agents,
                !.round_ends = [a \in 1..1 |-> <<BeliefOf(cfg.agent_type, agents[a])>>],
                !.updates = [a \in 1..1 |-> <<BeliefOf(cfg.agent_type, agents[a])>>],
                !.shared = [a \in 1..1 |-> {a}],
                !.network0 = network]

EvidenceNext == EvidenceSkipped \/ EvidenceDrawn

EvidenceSpec == EvidenceInit /\ [][EvidenceNext]_vars

----------------------------------------------------------------------------
(* The round loop without the iteration limit: two ordinal agents rank two   *)
(* alternatives without noise and without closure, on the graph of the edge  *)
(* between them or on the graph without edges.  The round number is counted  *)
(* up to IterationLimit and stays there; an agent is drawn for evidence at   *)
(* most MaxDraws times, which is more than it takes to learn the one pair    *)
(* and to go SteadyStateThreshold updates without a change.                  *)

MaxDraws == 4

LiveConfigs ==
    {Config(t, FALSE, FALSE, FALSE, {}, 2, 2, {50}, {100}) :
        t \in {"agent", "bandwidth"}}

LiveInit ==
    /\ cfg \in LiveConfigs
    /\ pc = "setup"
    /\ bandwidth_limit = {}
    /\ agents = <<>>
    /\ network = [nodes |-> {}, edges |-> {}]
    /\ iteration = 0
    /\ idx = 0
    /\ reached_convergence = FALSE
    /\ network_copy = [nodes |-> {}, edges |-> {}]
    /\ fused = 0
    /\ signal = "none"
    /\ obs = NoObs

\* main(): the next iteration of a round loop that has no limit
LiveStartRound ==
    /\ pc = "idle"
    /\ iteration' = IF iteration < IterationLimit THEN iteration + 1 ELSE iteration
    /\ pc' = "evidence"
    /\ idx' = 1
    /\ reached_convergence' = TRUE
    /\ fused' = 0
    /\ obs' = [obs EXCEPT !.round_start = agents, !.selected = {}, !.edge = <<>>,
                          !.decided = FALSE, !.drawn = {}]
    /\ UNCHANGED <<cfg, bandwidth_limit, agents, network, network_copy, signal>>

\* main_loop, lines 91-122: agent a is the next of the evidence phase and
\* draws below the evidence rate
LiveEvidenceDrawn(a) ==
    /\ idx = a
    /\ agents[a].evidence < MaxDraws
    /\ EvidenceDrawn

LiveNext ==
    \/ Setup
    \/ Initialisation
    \/ LiveStartRound
    \/ EvidenceSkipped
    \/ LiveEvidenceDrawn(1)
    \/ LiveEvidenceDrawn(2)
    \/ RoundStop
    \/ BeginFusion
    \/ FusionStep
    \/ FusionExhausted
    \/ FusionDone

\* The program runs on, and random.random() falls below an evidence rate
\* above 0 again and again: an agent whose turn in the evidence phase comes
\* round after round is drawn in one of them
LiveSpec ==
    /\ LiveInit
    /\ [][LiveNext]_vars
    /\ WF_vars(LiveNext)
    /\ SF_vars(LiveEvidenceDrawn(1))
    /\ SF_vars(LiveEvidenceDrawn(2))

----------------------------------------------------------------------------
(* Properties *)

\* the ranges the configuration is documented to lie in
InRange(c) ==
    /\ c.states >= 2
    /\ \A p \in c.connectivity : 0 <= p /\ p <= 100

Asymmetric(R) == \A p \in R : <<p[2], p[1]>> \notin R

Transitive(R) ==
    \A p \in R : \A q \in R : (p[2] = q[1]) => (<<p[1], q[2]>> \in R)

AgentIds == 1..Len(agents)

\* C1: in every reachable state of a trial no agent's preference relation
\* contains both (x, y) and (y, x).
C1_Asymmetry == \A a \in AgentIds : Asymmetric(agents[a].preferences)

\* C2 (as claimed): an update increases since_change by exactly 1 if the value
\* passed in equals the agent's current belief, and otherwise sets it to 0.
C2_ChangeTracking_Claimed ==
    [][(pc = "unit" /\ pc' = "unit_done") =>
        IF obs'.call.value = {BeliefOf(cfg.agent_type, agents[1])}
        THEN agents'[1].since_change = agents[1].since_change + 1
        ELSE agents'[1].since_change = 0]_vars

\* C2 (amended): an update increases since_change by exactly 1 if the value
\* passed in equals the agent's current belief or is none, and otherwise
\* sets it to 0.
C2_ChangeTracking ==
    [][(pc = "unit" /\ pc' = "unit_done") =>
        IF obs'.call.value = {} \/
           obs'.call.value = {BeliefOf(cfg.agent_type, agents[1])}
        THEN agents'[1].since_change = agents[1].since_change + 1
        ELSE agents'[1].since_change = 0]_vars

\* C2 witness: a probabilistic agent has been updated with none
C2_Witness ==
    /\ pc = "unit_done"
    /\ cfg.agent_type = "probabilistic"
    /\ obs.call.value = {}
    /\ agents[1].since_change = MaxSinceChange + 1

\* C3: a round returns "stop" if and only if every agent has
\* since_change >= the threshold once its evidence phase has finished, and
\* returns "continue" in every other case.
C3_StopIffConverged ==
    (pc \in {"idle", "halted"} /\ signal # "none") =>
        /\ signal \in {"stop", "continue"}
        /\ (signal = "stop") <=> obs.decided

\* C3 witness: a round has returned "stop"
C3_Witness == pc = "halted" /\ signal = "stop" /\ obs.decided /\ iteration >= 2

RoundStartConverged ==
    /\ obs.round_start # <<>>
    /\ \A a \in 1..Len(obs.round_start) :
          obs.round_start[a].since_change >= SteadyStateThreshold

\* C4 (as claimed): once every agent has since_change >= the threshold at the
\* start of a round, that round signals "stop" and no agent is mutated in it,
\* the evidence phase included.
C4_Monotone_Claimed ==
    [][(InRange(cfg) /\ pc \in {"evidence", "fusion"} /\ RoundStartConverged) =>
        (agents' = agents /\ signal' \in {signal, "stop"})]_vars

\* C4 (amended): once every agent has since_change >= the threshold when the
\* evidence phase of a round has finished, that round signals "stop" without
\* a fusion phase, no later round is run and no agent is mutated any more.
C4_Monotone ==
    [][/\ (pc = "evidence" /\ idx > Len(agents) /\ AllConverged) =>
            (signal' = "stop" /\ pc' = "halted" /\ agents' = agents)
       /\ (signal = "stop") =>
            (signal' = "stop" /\ pc' = "halted" /\ agents' = agents /\
             iteration' = iteration)]_vars

\* C4 witness: a round has signalled "stop" after its evidence phase updated
\* an agent
C4_Witness ==
    /\ signal = "stop"
    /\ \E a \in AgentIds : agents[a].evidence > obs.round_start[a].evidence

\* C5: within one round every agent is an endpoint of at most one selected
\* edge, so its interaction count rises by at most 1 in the round.
C5_OneInteractionPerRound ==
    (obs.round_start # <<>>) =>
        /\ \A a \in AgentIds :
              agents[a].interactions <= obs.round_start[a].interactions + 1
        /\ \A e \in obs.selected : \A f \in obs.selected :
              (e # f) => ({e[1], e[2]} \cap {f[1], f[2]} = {})

\* C5 witness: two edges have been selected in one round
C5_Witness == Cardinality(obs.selected) = 2

\* the value combine returns for two agents, as an optional value
CombineResult(c, agent1, agent2) ==
    IF c.agent_type \in ProbAgentTypes
    THEN type_combine(c.agent_type, agent1.belief, agent2.belief)
    ELSE {combine(agent1.preferences, agent2.preferences, c.form_closure)}

\* C6: without a bandwidth limit, right after the fusion of a selected edge
\* (a, b) whose combine result is not none, a and b hold equal beliefs, both
\* equal to combine of their beliefs just before the fusion.
C6_SymmetricAdoption ==
    [][(pc = "fusion" /\ fused' = fused + 1 /\ bandwidth_limit = {}) =>
        LET e == obs'.edge
            r == CombineResult(cfg, agents[e[1]], agents[e[2]])
        IN  (r # {}) =>
               /\ {BeliefOf(cfg.agent_type, agents'[e[1]])} = r
               /\ {BeliefOf(cfg.agent_type, agents'[e[2]])} = r]_vars

\* C6 witness: a fusion has left its two agents with one belief, which the
\* second did not hold at the start of the round and did not get as evidence
C6_Witness ==
    /\ pc = "fusion"
    /\ bandwidth_limit = {}
    /\ obs.edge # <<>>
    /\ BeliefOf(cfg.agent_type, agents[obs.edge[1]]) =
       BeliefOf(cfg.agent_type, agents[obs.edge[2]])
    /\ agents[obs.edge[2]].evidence = obs.round_start[obs.edge[2]].evidence
    /\ BeliefOf(cfg.agent_type, agents[obs.edge[2]]) #
       BeliefOf(cfg.agent_type, obs.round_start[obs.edge[2]])

\* C7: every trial terminates: at most IterationLimit rounds are run, no round
\* is run after the first round that signals "stop", and no agent changes
\* after the driver has halted.
C7_Terminates ==
    /\ <>[](pc \in {"halted", "rejected"})
    /\ [](iteration <= IterationLimit)
    /\ [][(signal = "stop" \/ pc = "halted") =>
            (iteration' = iteration /\ agents' = agents)]_vars

\* C7 witness: the driver has halted at the iteration limit without a "stop"
C7_Witness == pc = "halted" /\ signal = "continue" /\ iteration = IterationLimit

\* C8: a configuration with states < 2, connectivity outside [0,1] or the
\* bandwidth-limited variant without a bandwidth limit is rejected at setup:
\* no agent is created and no round is run under it.
C8_InvalidRejected ==
    (~InRange(cfg) \/ (cfg.agent_type = "bandwidth" /\ bandwidth_limit = {})) =>
        (pc \in {"setup", "rejected"} /\ agents = <<>> /\ iteration = 0)

\* C9: with closure mode on, every relation an ordinal or bandwidth-limited
\* agent holds is transitively closed.
C9_Closed ==
    (cfg.form_closure /\ cfg.agent_type \in {"agent", "bandwidth"}) =>
        \A a \in AgentIds : Transitive(agents[a].preferences)

\* C9 witness: with closure on, an agent holds three pairs after one round,
\* in which evidence and fusion together bring at most two
C9_Witness ==
    /\ cfg.form_closure
    /\ cfg.agent_type \in {"agent", "bandwidth"}
    /\ iteration = 1
    /\ \E a \in AgentIds : Cardinality(agents[a].preferences) = 3

AllEqual(s) == \A i \in 1..Len(s) : s[i] = s[1]

\* C10 (as claimed): whenever an agent has since_change >= the threshold, its
\* belief has been the same at the end of each of the last threshold rounds
\* (of those that have ended, the snapshot of round 0 included).
C10_SteadyRounds_Claimed ==
    (InRange(cfg) /\ pc \in {"idle", "evidence", "fusion", "halted"}) =>
        \A a \in AgentIds :
            (agents[a].since_change >= SteadyStateThreshold) =>
                AllEqual(obs.round_ends[a])

\* C10 (amended): whenever an agent has since_change >= the threshold, its
\* belief has been the same after each of its last threshold updates (an
\* update by evidence or by fusion; a round can bring two of them or none).
C10_SteadyUpdates ==
    (pc \in {"idle", "evidence", "fusion", "halted"}) =>
        \A a \in AgentIds :
            (agents[a].since_change >= SteadyStateThreshold) =>
                /\ Len(obs.updates[a]) >= SteadyStateThreshold + 1
                /\ AllEqual(obs.updates[a])
                /\ obs.updates[a][1] = BeliefOf(cfg.agent_type, agents[a])

\* C10 witness: an agent has since_change >= the threshold although its belief
\* differs between the ends of the last threshold rounds
C10_Witness ==
    /\ InRange(cfg)
    /\ pc \in {"idle", "evidence", "fusion", "halted"}
    /\ \E a \in AgentIds :
          /\ agents[a].since_change >= SteadyStateThreshold
          /\ ~AllEqual(obs.round_ends[a])

\* the pairs of the union of two relations that the union does not also hold
\* reversed
ConsistentUnion(A, B) ==
    {p \in A \cup B : <<p[2], p[1]>> \notin A \cup B}

\* R is the transitive closure of base: the least transitive relation over it
IsClosureOf(R, base) ==
    /\ base \subseteq R
    /\ Transitive(R)
    /\ \A T \in SUBSET R : (base \subseteq T /\ Transitive(T)) => T = R

\* C11: the fusion of two ordinal agents leaves both with exactly the pairs of
\* the union of their relations whose reverse is not in the union when closure
\* is off, and with the transitive closure of that set when closure is on;
\* {(2,1)} and {(1,0)} give {(2,1),(1,0)}, and {(2,1),(1,0),(2,0)} with closure.
C11_Combine ==
    [][(pc = "fusion" /\ pc' = "fusion" /\ cfg.agent_type = "agent") =>
        LET e == obs'.edge
            A == agents[e[1]].preferences
            B == agents[e[2]].preferences
            R == agents'[e[1]].preferences
        IN  /\ agents'[e[2]].preferences = R
            /\ IF cfg.form_closure
               THEN IsClosureOf(R, ConsistentUnion(A, B))
               ELSE R = ConsistentUnion(A, B)
            /\ (A = {<<2, 1>>} /\ B = {<<1, 0>>}) =>
                  R = IF cfg.form_closure
                      THEN {<<2, 1>>, <<1, 0>>, <<2, 0>>}
                      ELSE {<<2, 1>>, <<1, 0>>}]_vars

\* the belief an agent held before its latest update
BeforeLastUpdate(a) == obs.updates[a][Len(obs.updates[a]) - 1]

\* C11 witness: with closure on, agents holding {(2,1)} and {(1,0)} have fused
\* into {(2,1),(1,0),(2,0)}
C11_Witness ==
    /\ pc = "fusion"
    /\ cfg.agent_type = "agent"
    /\ cfg.form_closure
    /\ obs.edge = <<1, 2>>
    /\ BeforeLastUpdate(1) = {<<2, 1>>}
    /\ BeforeLastUpdate(2) = {<<1, 0>>}
    /\ agents[1].preferences = {<<2, 1>>, <<1, 0>>, <<2, 0>>}

\* C12: in a bandwidth-limited fusion of edge (a, b) with limit k and closure
\* off, the new relation of a lies within a's old relation and at most k pairs
\* of b's old relation, and the new relation of b within b's old relation and
\* at most k pairs of a's old relation.
C12_BandwidthLimited ==
    [][(pc = "fusion" /\ pc' = "fusion" /\ cfg.agent_type = "bandwidth"
            /\ bandwidth_limit # {} /\ ~cfg.form_closure) =>
        LET e == obs'.edge
            k == CHOOSE v \in bandwidth_limit : TRUE
            A == agents[e[1]].preferences
            B == agents[e[2]].preferences
        IN  /\ \E Sb \in SUBSET B :
                  /\ Cardinality(Sb) <= k
                  /\ agents'[e[1]].preferences \subseteq A \cup Sb
            /\ \E Sa \in SUBSET A :
                  /\ Cardinality(Sa) <= k
                  /\ agents'[e[2]].preferences \subseteq B \cup Sa]_vars

\* C12 witness: agent 2 held more pairs than the limit and agent 1 has not
\* received all of them, while agent 2 has received all of agent 1's
C12_Witness ==
    /\ pc = "fusion"
    /\ cfg.agent_type = "bandwidth"
    /\ ~cfg.form_closure
    /\ obs.edge = <<1, 2>>
    /\ \E k \in bandwidth_limit : Cardinality(BeforeLastUpdate(2)) > k
    /\ BeforeLastUpdate(1) # {}
    /\ ~(BeforeLastUpdate(2) \subseteq agents[1].preferences)
    /\ BeforeLastUpdate(1) \subseteq agents[2].preferences

\* C13: an update of a probabilistic or averaging agent with the result none
\* leaves the belief, the derived relation, the evidence count and the
\* interaction count as they were and adds exactly 1 to since_change.
C13_NoneUnchanged ==
    [][(pc = "unit" /\ pc' = "unit_done" /\ cfg.agent_type \in ProbAgentTypes
            /\ obs'.call.value = {}) =>
        /\ agents'[1].belief = agents[1].belief
        /\ agents'[1].preferences = agents[1].preferences
        /\ agents'[1].evidence = agents[1].evidence
        /\ agents'[1].interactions = agents[1].interactions
        /\ agents'[1].since_change = agents[1].since_change + 1]_vars

\* C13 witness: the product fusion of [1,0] and [0,1] was none, and the agent
\* holding [1,0] went through update_preferences with it
C13_Witness ==
    /\ pc = "unit_done"
    /\ cfg.agent_type = "probabilistic"
    /\ obs.call = [op |-> "update_preferences", value |-> {}]
    /\ agents[1].belief = <<Scale, 0>>
    /\ agents[1].preferences = {<<0, 1>>}
    /\ agents[1].interactions = 0
    /\ agents[1].since_change = MaxSinceChange + 1

\* a probability distribution: every element in [0, 1] and the sum 1, up to
\* one rounding unit for each element
IsDistribution(b) ==
    /\ \A i \in 1..Len(b) : 0 <= b[i] /\ b[i] <= Scale
    /\ SumSeq(b) - Scale <= Len(b)
    /\ Scale - SumSeq(b) <= Len(b)

\* C14: in a trial of probabilistic or averaging agents the belief of every
\* agent, and every evidence distribution random_evidence can return to an
\* agent of the evidence phase (with or without noise), has all its elements
\* in [0, 1] and sums to 1.
C14_Distributions ==
    (cfg.agent_type \in ProbAgentTypes) =>
        /\ \A a \in AgentIds : IsDistribution(agents[a].belief)
        /\ (pc = "evidence" /\ idx <= Len(agents)) =>
              \A ev \in random_evidence(cfg.states, cfg.noise) : IsDistribution(ev)

\* C14 witness: with noise, an agent that has received evidence and has fused
\* holds a belief that is no longer uniform
C14_Witness ==
    /\ cfg.agent_type \in ProbAgentTypes
    /\ cfg.noise
    /\ \E a \in AgentIds :
          /\ agents[a].evidence > 0
          /\ agents[a].interactions > 0
          /\ agents[a].belief # NewAgent(cfg.agent_type, cfg.states).belief

\* C15: with evidence_only set the fusion phase never runs: no edge is
\* selected, every interaction count stays 0, and every round that does not
\* find the whole population converged returns "continue".
C15_EvidenceOnly ==
    cfg.evidence_only =>
        /\ pc # "fusion"
        /\ obs.selected = {}
        /\ \A a \in AgentIds : agents[a].interactions = 0
        /\ (pc \in {"idle", "halted"} /\ iteration >= 1 /\ ~obs.decided) =>
              signal = "continue"

\* C15 witness: an evidence-only trial has finished two rounds in which agents
\* received evidence, the latest with an agent still to converge
C15_Witness ==
    /\ cfg.evidence_only
    /\ pc = "idle"
    /\ iteration >= 2
    /\ ~obs.decided
    /\ signal = "continue"
    /\ \E a \in AgentIds : agents[a].evidence >= 2

\* C16: when no edge is left in the working copy as the next edge is to be
\* selected, the round ends there and returns "continue": the fusions already
\* applied in the round are kept and no more are applied.  On a network
\* without edges no interaction count ever changes.
C16_EdgesExhausted ==
    /\ [](network.edges = {} => \A a \in AgentIds : agents[a].interactions = 0)
    /\ [][(pc = "fusion" /\ network_copy.edges = {}
              /\ fused < num_of_edges(cfg.fusion_rate, network)) =>
            /\ pc' = "idle"
            /\ signal' = "continue"
            /\ agents' = agents
            /\ obs'.selected = obs.selected]_vars

\* C16 witness: a round with a quota of several edges has ended after its
\* first fusion, which left no edge in the working copy
C16_Witness ==
    /\ pc = "idle"
    /\ signal = "continue"
    /\ network_copy.edges = {}
    /\ fused = 1
    /\ fused < num_of_edges(cfg.fusion_rate, network)
    /\ Cardinality(obs.selected) = 1
    /\ \A a \in AgentIds :
          agents[a].interactions = obs.round_start[a].interactions +
              (IF \E e \in obs.selected : a \in {e[1], e[2]} THEN 1 ELSE 0)

\* C17: the evidence step of one agent leaves every other agent as it was,
\* also an agent that holds the very object the agent was handed in an
\* earlier symmetric fusion.
C17_EvidenceFrame ==
    [][(pc = "evidence" /\ idx' = idx + 1) =>
        \A b \in AgentIds \ {idx} : agents'[b] = agents[b]]_vars

\* C17 witness: agents 1 and 2 of three adopted one combine result in the
\* fusion of round 1 and held it at the start of round 2; agent 1 has now
\* received evidence that changed its relation, and agent 2 still holds the
\* shared result
C17_Witness ==
    /\ cfg.agent_type = "agent"
    /\ cfg.agents = 3
    /\ iteration = 2
    /\ pc = "evidence"
    /\ idx = 2
    /\ obs.round_start[1].interactions = 1
    /\ obs.round_start[2].interactions = 1
    /\ obs.round_start[3].interactions = 0
    /\ obs.round_start[1].preferences = obs.round_start[2].preferences
    /\ agents[1].evidence > obs.round_start[1].evidence
    /\ agents[1].preferences # obs.round_start[1].preferences
    /\ obs.shared[1] = {1}
    /\ obs.shared[2] = {2}
    /\ agents[2] = obs.round_start[2]

\* the agents at the ends of the edges selected in the round
Endpoints == UNION {{e[1], e[2]} : e \in obs.selected}

\* C18: throughout a round, an agent that has not been drawn for evidence and
\* is at no end of a selected edge has the belief, evidence count, interaction
\* count and since_change it had when the round started.
C18_Bystander ==
    (iteration >= 1 /\ pc \in {"evidence", "fusion", "idle", "halted"}) =>
        \A a \in AgentIds \ (obs.drawn \cup Endpoints) :
            agents[a] = obs.round_start[a]

\* C18 witness: a round has ended in which one agent was drawn for evidence,
\* an edge was selected, and a third agent that has an edge was neither
C18_Witness ==
    /\ pc = "idle"
    /\ iteration >= 2
    /\ obs.drawn # {}
    /\ obs.selected # {}
    /\ \E a \in AgentIds \ (obs.drawn \cup Endpoints) :
          /\ \E e \in network.edges : a \in {e[1], e[2]}
          /\ agents[a].evidence > 0
          /\ agents[a] = obs.round_start[a]

\* the belief recorded after the latest update of an agent
AfterLastUpdate(a) == obs.updates[a][Len(obs.updates[a])]

\* C19: in a round that returns "stop" the fusion phase does not run: no edge
\* is selected, every interaction count is the one of the start of the round,
\* and every belief is the one the evidence phase left.
C19_StopSkipsFusion ==
    (signal = "stop") =>
        /\ pc = "halted"
        /\ obs.selected = {}
        /\ fused = 0
        /\ \A a \in AgentIds :
              /\ agents[a].interactions = obs.round_start[a].interactions
              /\ BeliefOf(cfg.agent_type, agents[a]) =
                    IF a \in obs.drawn THEN AfterLastUpdate(a)
                    ELSE BeliefOf(cfg.agent_type, obs.round_start[a])

\* C19 witness: a trial whose agents fused in earlier rounds has ended with a
\* round that returned "stop" after an evidence phase in which an agent was
\* drawn, on a network that had an edge to select
C19_Witness ==
    /\ signal = "stop"
    /\ network.edges # {}
    /\ obs.drawn # {}
    /\ obs.selected = {}
    /\ \A a \in AgentIds : agents[a].interactions > 0

\* the interaction counts of all agents, and the number of times agent a went
\* through update_preferences with a result in this round
InteractionCounts == [a \in AgentIds |-> agents[a].interactions]

InteractionsInRound(a) == agents[a].interactions - obs.round_start[a].interactions

\* C20: the two agents of every selected edge have both gone through
\* update_preferences in the round or neither has; the interaction counts of
\* ordinal and bandwidth-limited agents therefore always add up to an even
\* number.
C20_BothOrNeither ==
    /\ \A e \in obs.selected :
          /\ InteractionsInRound(e[1]) = InteractionsInRound(e[2])
          /\ cfg.agent_type \notin ProbAgentTypes => InteractionsInRound(e[1]) = 1
    /\ cfg.agent_type \notin ProbAgentTypes => SumSeq(InteractionCounts) % 2 = 0

\* C20 witness: bandwidth-limited agents are in the fusion phase of a later
\* round, an edge has been selected, and four interactions have been counted
C20_Witness ==
    /\ cfg.agent_type = "bandwidth"
    /\ pc = "fusion"
    /\ iteration >= 2
    /\ obs.selected # {}
    /\ SumSeq(InteractionCounts) = 4

\* C21: after every round the network has the nodes and the edges it was
\* given at initialisation; the nodes removed in the fusion phase are removed
\* from the working copy only.
C21_NetworkFixed ==
    (pc \in {"idle", "evidence", "fusion", "halted"}) =>
        /\ network = obs.network0
        /\ network.nodes = AgentIds

\* C21 witness: a second round has ended whose fusion phase selected an edge
\* and removed its agents, and their edges, from the working copy
C21_Witness ==
    /\ pc = "idle"
    /\ iteration >= 2
    /\ obs.selected # {}
    /\ network.edges # {}
    /\ network_copy.edges = {}
    /\ network_copy.nodes # network.nodes
    /\ network = obs.network0

\* the relation holds every pair of the true order in one direction or the
\* other
Covers(R, states) ==
    \A p \in true_prefs(states) : p \in R \/ <<p[2], p[1]>> \in R

OrdinalAgentTypes == {"agent", "bandwidth"}

\* C22: for an ordinal agent whose relation covers every pair of the true
\* order in one direction or the other, find_evidence returns the empty set,
\* and the evidence step that follows leaves the relation as it was, adds 1 to
\* since_change and adds 1 to the evidence count.
C22_NothingToLearn ==
    /\ [](( /\ pc = "evidence"
            /\ idx <= Len(agents)
            /\ cfg.agent_type \in OrdinalAgentTypes
            /\ Covers(agents[idx].preferences, cfg.states)) =>
          find_evidence(agents[idx], cfg.states, cfg.noise) = {{}})
    /\ [][( /\ pc = "evidence"
            /\ idx <= Len(agents)
            /\ cfg.agent_type \in OrdinalAgentTypes
            /\ Covers(agents[idx].preferences, cfg.states)
            /\ agents' # agents) =>
          agents'[idx] = [agents[idx] EXCEPT !.since_change = @ + 1,
                                            !.evidence = @ + 1]]_vars

\* C23: the evidence find_evidence returns to an ordinal agent is empty or is
\* one pair (x, y) such that the agent holds neither (x, y) nor (y, x) and one
\* of the two is a pair of the true order; without noise (x, y) itself is.
C23_EvidenceUnknownPair ==
    (pc = "evidence" /\ idx <= Len(agents) /\ cfg.agent_type \in OrdinalAgentTypes) =>
        \A ev \in find_evidence(agents[idx], cfg.states, cfg.noise) :
            \/ ev = {}
            \/ \E x, y \in 0..(cfg.states - 1) :
                  /\ ev = {<<x, y>>}
                  /\ <<x, y>> \notin agents[idx].preferences
                  /\ <<y, x>> \notin agents[idx].preferences
                  /\ <<x, y>> \in true_prefs(cfg.states) \/ <<y, x>> \in true_prefs(cfg.states)
                  /\ ~cfg.noise => <<x, y>> \in true_prefs(cfg.states)

\* C23 witness: with noise and closure off, an agent that held pairs has been
\* handed one pair it did not hold in either direction, the reverse of a pair
\* of the true order
C23_Witness ==
    /\ pc = "evidence"
    /\ idx = 2
    /\ cfg.noise
    /\ ~cfg.form_closure
    /\ obs.round_start[1].preferences # {}
    /\ \E p \in agents[1].preferences :
          /\ agents[1].preferences = obs.round_start[1].preferences \cup {p}
          /\ p \notin obs.round_start[1].preferences
          /\ <<p[2], p[1]>> \notin obs.round_start[1].preferences
          /\ <<p[2], p[1]>> \in true_prefs(cfg.states)

\* C24: the relation of a probabilistic or averaging agent is always the one
\* derived from its belief: it holds (x, y) exactly when the mass of x exceeds
\* the mass of y, and so holds no pair of alternatives of equal mass.
C24_DerivedRelation ==
    (cfg.agent_type \in ProbAgentTypes) =>
        \A a \in AgentIds :
            \A x, y \in 0..(cfg.states - 1) :
                <<x, y>> \in agents[a].preferences <=>
                    agents[a].belief[x + 1] > agents[a].belief[y + 1]

\* C24 witness: one agent has received evidence and holds a pair, while
\* another still holds the uniform belief and no pair
C24_Witness ==
    /\ cfg.agent_type \in ProbAgentTypes
    /\ \E a, b \in AgentIds :
          /\ agents[a].evidence > 0
          /\ agents[a].preferences # {}
          /\ agents[b].belief = NewAgent(cfg.agent_type, cfg.states).belief
          /\ agents[b].preferences = {}

\* C25: for ordinal and bandwidth-limited agents, evidential_updating adds
\* exactly 1 to the evidence count and leaves the interaction count, and
\* update_preferences adds exactly 1 to the interaction count and leaves the
\* evidence count; both store the relation they are handed.
C25_CountersAndStore ==
    [][(pc = "unit" /\ pc' = "unit_done" /\ cfg.agent_type \in OrdinalAgentTypes) =>
        /\ obs'.call.value = {agents'[1].preferences}
        /\ obs'.call.op = "evidential_updating" =>
              /\ agents'[1].evidence = agents[1].evidence + 1
              /\ agents'[1].interactions = agents[1].interactions
        /\ obs'.call.op = "update_preferences" =>
              /\ agents'[1].interactions = agents[1].interactions + 1
              /\ agents'[1].evidence = agents[1].evidence]_vars

\* C25 witness: a bandwidth-limited agent that held (1,0) went through
\* update_preferences with the empty relation and now holds it
C25_Witness ==
    /\ pc = "unit_done"
    /\ cfg.agent_type = "bandwidth"
    /\ obs.call = [op |-> "update_preferences", value |-> {{}}]
    /\ agents[1].preferences = {}
    /\ agents[1].interactions = 1
    /\ agents[1].evidence = 0
    /\ agents[1].since_change = 0

\* C26: without noise the relation of every ordinal or bandwidth-limited
\* agent is a subset of the true relation, and no update, by evidence or by
\* fusion, removes a pair: each relation an agent is left with by an update
\* includes the one before it.
C26_TruthOnlyGrowing ==
    (cfg.agent_type \in OrdinalAgentTypes /\ ~cfg.noise) =>
        \A a \in AgentIds :
            /\ agents[a].preferences \subseteq true_prefs(cfg.states)
            /\ AfterLastUpdate(a) = agents[a].preferences
            /\ \A i \in 1..(Len(obs.updates[a]) - 1) :
                  obs.updates[a][i] \subseteq obs.updates[a][i + 1]

\* C26 witness: without noise an agent has come to hold the whole true
\* relation of three alternatives through evidence and fusion
C26_Witness ==
    /\ cfg.agent_type \in OrdinalAgentTypes
    /\ ~cfg.noise
    /\ cfg.states = 3
    /\ \E a \in AgentIds :
          /\ agents[a].preferences = true_prefs(cfg.states)
          /\ agents[a].evidence > 0
          /\ agents[a].interactions > 0
          /\ obs.updates[a][1] # agents[a].preferences

\* C27: with closure off, with or without noise, the evidence step of an
\* ordinal agent that is handed a pair leaves it with the relation it held and
\* that one pair: one pair is added and none is removed; an evidence step
\* without a pair removes none either.
C27_EvidenceAddsOnePair ==
    [][( /\ pc = "evidence"
         /\ idx <= Len(agents)
         /\ cfg.agent_type \in OrdinalAgentTypes
         /\ ~cfg.form_closure
         /\ agents' # agents) =>
        /\ agents[idx].preferences \subseteq agents'[idx].preferences
        /\ ~Covers(agents[idx].preferences, cfg.states) =>
              \E p \in agents'[idx].preferences :
                  /\ p \notin agents[idx].preferences
                  /\ agents'[idx].preferences = agents[idx].preferences \cup {p}]_vars

\* C27 witness: with closure off an agent that had fused and held at least two
\* pairs has received evidence and holds one pair more, and all it held
C27_Witness ==
    /\ pc = "evidence"
    /\ idx = 2
    /\ ~cfg.form_closure
    /\ cfg.agent_type \in OrdinalAgentTypes
    /\ obs.round_start[1].interactions = 1
    /\ agents[1].evidence = obs.round_start[1].evidence + 1
    /\ Cardinality(obs.round_start[1].preferences) >= 2
    /\ obs.round_start[1].preferences \subseteq agents[1].preferences
    /\ Cardinality(agents[1].preferences) =
          Cardinality(obs.round_start[1].preferences) + 1

\* C28: for every ordinal or bandwidth-limited agent the evidence count, the
\* interaction count and since_change are never negative, the two counts are
\* never below what they were when the round started, and since_change is at
\* most the sum of the two counts.
C28_Counters ==
    (cfg.agent_type \in OrdinalAgentTypes) =>
        \A a \in AgentIds :
            /\ agents[a].evidence >= 0
            /\ agents[a].interactions >= 0
            /\ agents[a].since_change >= 0
            /\ agents[a].since_change <= agents[a].evidence + agents[a].interactions
            /\ iteration >= 1 =>
                  /\ agents[a].evidence >= obs.round_start[a].evidence
                  /\ agents[a].interactions >= obs.round_start[a].interactions

\* C28 witness: in a valid trial one agent has gone through updates that all
\* left its relation as it was, and another through updates that did not
C28_Witness ==
    /\ cfg.agent_type \in OrdinalAgentTypes
    /\ InRange(cfg)
    /\ \E a, b \in AgentIds :
          /\ agents[a].since_change >= 2
          /\ agents[a].since_change = agents[a].evidence + agents[a].interactions
          /\ agents[b].since_change = 0
          /\ agents[b].evidence > obs.round_start[b].evidence
          /\ agents[b].interactions > 0

\* the agents all hold the whole of the true relation
AllLearned == \A a \in AgentIds : agents[a].preferences = true_prefs(cfg.states)

\* the trial has ended on the stop signal of a round
Stopped == pc = "halted" /\ signal = "stop"

\* C29 as stated: with ordinal agents, no noise, no closure and no iteration
\* limit, and every agent drawn for evidence again and again, every agent
\* eventually holds the whole true relation and the scheduler eventually
\* signals stop.
C29_FairLearning_Claimed ==
    /\ <>(pc \notin {"setup", "init"} /\ AllLearned)
    /\ <>Stopped

\* C29: with ordinal agents, no noise, no closure and no iteration limit, and
\* every agent drawn for evidence again and again, the scheduler eventually
\* signals stop; by then every agent has gone SteadyStateThreshold updates
\* without a change and holds nothing but true pairs, and on a graph without
\* edges it holds all of them.  On a graph with edges the stop can come while
\* relations are incomplete, since a fusion that changes nothing counts
\* towards convergence.
C29_FairLearning ==
    /\ <>Stopped
    /\ [](Stopped =>
            /\ \A a \in AgentIds :
                  /\ agents[a].since_change >= SteadyStateThreshold
                  /\ agents[a].preferences \subseteq true_prefs(cfg.states)
            /\ network.edges = {} => AllLearned)

\* C29 witness: a trial without iteration limit has stopped although no agent
\* was ever drawn for evidence, with every relation still empty
C29_Witness ==
    /\ cfg \in LiveConfigs
    /\ Stopped
    /\ \A a \in AgentIds :
          agents[a].preferences = {} /\ agents[a].evidence = 0

====
